---- MODULE Spec2Model ----
(***************************************************************************)
(* Model of btc-dashboard: the strategy engine (core/strategy.py,          *)
(* core/utils.py, core/models.py), the backtest (core/backtest.py) and the *)
(* channel calculation (core/data_store.py).                               *)
(*                                                                         *)
(* Floats.  A finite float is modelled as an exact number                  *)
(*     (a + b * 1e-12) / d        a, b integers, d a positive integer,     *)
(* kept in lowest terms, with arithmetic carried to first order in 1e-12   *)
(* (products of two 1e-12 parts, about 1e-24, are dropped).  The 1e-12     *)
(* part is what makes the tolerance of step_weight observable: two weights *)
(* may differ by less than, exactly, or more than 1e-12.  The non-finite   *)
(* floats are the values NaN and Inf; Python's None is the value None.     *)
(***************************************************************************)
EXTENDS Integers, Sequences, FiniteSets, TLC

VARIABLES
    params,      \* StrategyParams passed to compute_weight_series
    ratios,      \* the ratios argument: one position per day
    start_idx,   \* the start_idx argument (0-based, as in the source)
    pc,          \* "loop" inside the for loop, "done" after the return
    i,           \* loop index of compute_weight_series (0-based)
    weight,      \* local `weight` of compute_weight_series
    weights,     \* local `weights`; weights[k+1] is the source's weights[k]
    last_trade,  \* local `last_trade`
    call,        \* locals of the latest target_weight call
    step,        \* StrategyStep returned by the latest step_weight call
    prices,      \* the prices argument of run_backtest: one price per day
    bt,          \* locals of run_backtest and the result it returned
    md,          \* a call of max_drawdown: its argument and its return value
    df,          \* the df_full argument of compute_channel: rows (date, price)
    ch,          \* locals of compute_channel and its outcome
    feed,        \* the price feed: its fields, its threads and the clock
    api          \* the update endpoint: the configured token and its requests

vars == <<params, ratios, start_idx, pc, i, weight, weights, last_trade, call, step,
          prices, bt, md, df, ch, feed, api>>

\* the state of the backtest, of max_drawdown and of the channel calculation
backtest_vars == <<prices, bt>>
channel_vars == <<df, ch>>
service_vars == <<feed, api>>

(***************************************************************************)
(* Bounds of the model.                                                    *)
(***************************************************************************)
MaxLen == 2
MaxStartIdx == 1

(***************************************************************************)
(* Float arithmetic.                                                       *)
(***************************************************************************)
AbsInt(n) == IF n < 0 THEN -n ELSE n

RECURSIVE GCD(_, _)
GCD(m, n) == IF n = 0 THEN m ELSE GCD(n, m % n)

Norm(a, b, d) ==
    LET g == GCD(GCD(AbsInt(a), AbsInt(b)), d)
    IN  [a |-> a \div g, b |-> b \div g, d |-> d \div g]

Num(n) == [a |-> n, b |-> 0, d |-> 1]
Frac(n, m) == Norm(n, 0, m)
\* n * 1e-12
Tiny(n) == [a |-> 0, b |-> n, d |-> 1]

Zero == Num(0)
One == Num(1)
Hundred == Num(100)

Add(x, y) == Norm(x.a * y.d + y.a * x.d, x.b * y.d + y.b * x.d, x.d * y.d)
Neg(x) == [a |-> -x.a, b |-> -x.b, d |-> x.d]
Sub(x, y) == Add(x, Neg(y))
Mul(x, y) == Norm(x.a * y.a, x.a * y.b + x.b * y.a, x.d * y.d)
\* x / y for y with a non-zero a part (every divisor of the source is one)
Div(x, y) ==
    LET s == IF y.a < 0 THEN -1 ELSE 1
    IN  Mul(x, Norm(s * y.d * y.a, -s * y.d * y.b, y.a * y.a))

Sign(x) == IF x.a # 0 THEN (IF x.a < 0 THEN -1 ELSE 1)
           ELSE IF x.b # 0 THEN (IF x.b < 0 THEN -1 ELSE 1)
           ELSE 0
Lt(x, y) == Sign(Sub(x, y)) < 0
Le(x, y) == Sign(Sub(x, y)) <= 0
Gt(x, y) == Lt(y, x)
Ge(x, y) == Le(y, x)
Abs(x) == IF Sign(x) < 0 THEN Neg(x) ELSE x
\* Python's min(x, y) and max(x, y)
Min(x, y) == IF Lt(y, x) THEN y ELSE x
Max(x, y) == IF Gt(y, x) THEN y ELSE x

\* float('nan'), float('inf') and None
NaN == [nonfinite |-> "nan"]
Inf == [nonfinite |-> "inf"]
None == [none |-> TRUE]

\* np.isfinite
isfinite(v) == v \notin {NaN, Inf}

\* core/utils.py clamp
clamp(value, min_val, max_val) == Max(min_val, Min(max_val, value))

\* the tolerance 1e-12 of step_weight and compute_weight_series
EPS == Tiny(1)

(***************************************************************************)
(* Inputs.  sell_start and buy_threshold come from sliders over 0..100,    *)
(* start_weight from a slider over 0..100 % divided by 100; a position is  *)
(* a float in [0, 100] (compute_channel clips it) or a non-finite float.   *)
(***************************************************************************)
Ladders == {"g0", "g1", "g2"}
ReentryModes == {"instant", "wait", "gradual"}
SellStarts == {Num(0), Num(50), Num(100)}
BuyThresholds == {Num(25), Num(75)}
StartWeights == {Zero, Frac(1, 2), One}
\* 50 + 50e-12 lies just above sell_start = 50: its ladder value is within
\* a few 1e-12 of 1.0
Positions == {Num(0), Num(25), Num(50), Add(Num(50), Tiny(50)), Num(75),
              Hundred, NaN, Inf}

StrategyParams == [ladder : Ladders, sell_start : SellStarts,
                   buy_threshold : BuyThresholds, reentry_mode : ReentryModes,
                   start_weight : StartWeights]

RatioLists == UNION {[1..n -> Positions] : n \in 0..MaxLen}

\* the dates argument: one date per ratio, strictly increasing (day numbers)
dates == [k \in 1..Len(ratios) |-> k]

(***************************************************************************)
(* StrategyEngine.                                                         *)
(***************************************************************************)
\* mutant: the soft and the aggressive ladder are swapped
sell_weight_Swapped(ratio, sell_start, ladder) ==
    IF ~isfinite(ratio) THEN One
    ELSE IF Le(ratio, sell_start) THEN One
    ELSE IF Ge(ratio, Hundred) THEN Zero
    ELSE LET width == Sub(Hundred, sell_start) IN
         IF Le(width, Zero) THEN Zero
         ELSE LET x == clamp(Div(Sub(ratio, sell_start), width), Zero, One) IN
              IF ladder = "g2" THEN clamp(Sub(One, Mul(x, x)), Zero, One)
              ELSE IF ladder = "g0"
                   THEN LET base == clamp(Sub(One, x), Zero, One) IN Mul(base, base)
                   ELSE clamp(Sub(One, x), Zero, One)

sell_weight(ratio, sell_start, ladder) ==
    IF ~isfinite(ratio) THEN One
    ELSE IF Le(ratio, sell_start) THEN One
    ELSE IF Ge(ratio, Hundred) THEN Zero
    ELSE LET width == Sub(Hundred, sell_start) IN
         IF Le(width, Zero) THEN Zero
         ELSE LET x == clamp(Div(Sub(ratio, sell_start), width), Zero, One) IN
              IF ladder = "g0" THEN clamp(Sub(One, Mul(x, x)), Zero, One)
              ELSE IF ladder = "g2"
                   THEN LET base == clamp(Sub(One, x), Zero, One) IN Mul(base, base)
                   ELSE clamp(Sub(One, x), Zero, One)

\* mutant: the sell regime follows the ladder instead of min(prev, ladder)
target_weight_NoHysteresis(prev_weight, ratio, p) ==
    IF ~isfinite(ratio) THEN prev_weight
    ELSE IF Ge(ratio, p.sell_start)
         THEN sell_weight(ratio, p.sell_start, p.ladder)
    ELSE IF p.reentry_mode = "instant" THEN One
    ELSE IF p.reentry_mode = "wait"
         THEN (IF Le(ratio, p.buy_threshold) THEN One ELSE prev_weight)
    ELSE LET denom == Max(p.sell_start, Tiny(1000))
             f == clamp(Div(Sub(p.sell_start, ratio), denom), Zero, One)
             eased == Mul(f, f)
         IN  clamp(Add(prev_weight, Mul(Sub(One, prev_weight), eased)), Zero, One)

\* mutant: wait mode re-enters as soon as the position is below sell_start
target_weight_WaitIgnored(prev_weight, ratio, p) ==
    IF ~isfinite(ratio) THEN prev_weight
    ELSE IF Ge(ratio, p.sell_start)
         THEN LET ladder_weight == sell_weight(ratio, p.sell_start, p.ladder)
              IN  Min(prev_weight, ladder_weight)
    ELSE IF p.reentry_mode = "instant" THEN One
    ELSE IF p.reentry_mode = "wait" THEN One
    ELSE LET denom == Max(p.sell_start, Tiny(1000))
             f == clamp(Div(Sub(p.sell_start, ratio), denom), Zero, One)
             eased == Mul(f, f)
         IN  clamp(Add(prev_weight, Mul(Sub(One, prev_weight), eased)), Zero, One)

\* mutant: instant re-entry is treated like "wait"
target_weight_InstantAsWait(prev_weight, ratio, p) ==
    IF ~isfinite(ratio) THEN prev_weight
    ELSE IF Ge(ratio, p.sell_start)
         THEN LET ladder_weight == sell_weight(ratio, p.sell_start, p.ladder)
              IN  Min(prev_weight, ladder_weight)
    ELSE IF p.reentry_mode \in {"instant", "wait"}
         THEN (IF Le(ratio, p.buy_threshold) THEN One ELSE prev_weight)
    ELSE LET denom == Max(p.sell_start, Tiny(1000))
             f == clamp(Div(Sub(p.sell_start, ratio), denom), Zero, One)
             eased == Mul(f, f)
         IN  clamp(Add(prev_weight, Mul(Sub(One, prev_weight), eased)), Zero, One)

\* mutant: gradual re-entry eases with f instead of f * f
target_weight_LinearEase(prev_weight, ratio, p) ==
    IF ~isfinite(ratio) THEN prev_weight
    ELSE IF Ge(ratio, p.sell_start)
         THEN LET ladder_weight == sell_weight(ratio, p.sell_start, p.ladder)
              IN  Min(prev_weight, ladder_weight)
    ELSE IF p.reentry_mode = "instant" THEN One
    ELSE IF p.reentry_mode = "wait"
         THEN (IF Le(ratio, p.buy_threshold) THEN One ELSE prev_weight)
    ELSE LET denom == Max(p.sell_start, Tiny(1000))
             f == clamp(Div(Sub(p.sell_start, ratio), denom), Zero, One)
             eased == f
         IN  clamp(Add(prev_weight, Mul(Sub(One, prev_weight), eased)), Zero, One)

\* mutant: a non-finite position is answered by the ladder's 1.0
target_weight_NanToLadder(prev_weight, ratio, p) ==
    IF ~isfinite(ratio) THEN sell_weight(ratio, p.sell_start, p.ladder)
    ELSE IF Ge(ratio, p.sell_start)
         THEN LET ladder_weight == sell_weight(ratio, p.sell_start, p.ladder)
              IN  Min(prev_weight, ladder_weight)
    ELSE IF p.reentry_mode = "instant" THEN One
    ELSE IF p.reentry_mode = "wait"
         THEN (IF Le(ratio, p.buy_threshold) THEN One ELSE prev_weight)
    ELSE LET denom == Max(p.sell_start, Tiny(1000))
             f == clamp(Div(Sub(p.sell_start, ratio), denom), Zero, One)
             eased == Mul(f, f)
         IN  clamp(Add(prev_weight, Mul(Sub(One, prev_weight), eased)), Zero, One)

\* mutant: gradual re-entry adds the eased step itself, unclamped
target_weight_Overshoot(prev_weight, ratio, p) ==
    IF ~isfinite(ratio) THEN prev_weight
    ELSE IF Ge(ratio, p.sell_start)
         THEN LET ladder_weight == sell_weight(ratio, p.sell_start, p.ladder)
              IN  Min(prev_weight, ladder_weight)
    ELSE IF p.reentry_mode = "instant" THEN One
    ELSE IF p.reentry_mode = "wait"
         THEN (IF Le(ratio, p.buy_threshold) THEN One ELSE prev_weight)
    ELSE LET denom == Max(p.sell_start, Tiny(1000))
             f == clamp(Div(Sub(p.sell_start, ratio), denom), Zero, One)
             eased == Mul(f, f)
         IN  Add(prev_weight, eased)

\* mutant: the sell regime caps the ladder by start_weight, not by prev_weight
target_weight_FromStart(prev_weight, ratio, p) ==
    IF ~isfinite(ratio) THEN prev_weight
    ELSE IF Ge(ratio, p.sell_start)
         THEN LET ladder_weight == sell_weight(ratio, p.sell_start, p.ladder)
              IN  Min(p.start_weight, ladder_weight)
    ELSE IF p.reentry_mode = "instant" THEN One
    ELSE IF p.reentry_mode = "wait"
         THEN (IF Le(ratio, p.buy_threshold) THEN One ELSE prev_weight)
    ELSE LET denom == Max(p.sell_start, Tiny(1000))
             f == clamp(Div(Sub(p.sell_start, ratio), denom), Zero, One)
             eased == Mul(f, f)
         IN  clamp(Add(prev_weight, Mul(Sub(One, prev_weight), eased)), Zero, One)

target_weight(prev_weight, ratio, p) ==
    IF ~isfinite(ratio) THEN prev_weight
    ELSE IF Ge(ratio, p.sell_start)
         THEN LET ladder_weight == sell_weight(ratio, p.sell_start, p.ladder)
              IN  Min(prev_weight, ladder_weight)
    ELSE IF p.reentry_mode = "instant" THEN One
    ELSE IF p.reentry_mode = "wait"
         THEN (IF Le(ratio, p.buy_threshold) THEN One ELSE prev_weight)
    ELSE LET denom == Max(p.sell_start, Tiny(1000))
             f == clamp(Div(Sub(p.sell_start, ratio), denom), Zero, One)
             eased == Mul(f, f)
         IN  clamp(Add(prev_weight, Mul(Sub(One, prev_weight), eased)), Zero, One)

\* mutant: the tolerance test is strict (abs(delta) < 1e-12)
step_weight_StrictEps(prev_weight, ratio, p) ==
    LET target == target_weight(prev_weight, ratio, p)
        delta == Sub(target, prev_weight)
    IN  IF Lt(Abs(delta), EPS)
        THEN [weight |-> prev_weight, action |-> "HOLD", tag |-> "hold"]
        ELSE IF Gt(delta, Zero)
             THEN [weight |-> target, action |-> "BUY / REBALANCE UP", tag |-> "buy"]
             ELSE [weight |-> target, action |-> "SELL / REBALANCE DOWN", tag |-> "sell"]

\* mutant: a hold returns the target instead of the previous weight
step_weight_HoldTarget(prev_weight, ratio, p) ==
    LET target == target_weight(prev_weight, ratio, p)
        delta == Sub(target, prev_weight)
    IN  IF Le(Abs(delta), EPS)
        THEN [weight |-> target, action |-> "HOLD", tag |-> "hold"]
        ELSE IF Gt(delta, Zero)
             THEN [weight |-> target, action |-> "BUY / REBALANCE UP", tag |-> "buy"]
             ELSE [weight |-> target, action |-> "SELL / REBALANCE DOWN", tag |-> "sell"]

step_weight(prev_weight, ratio, p) ==
    LET target == target_weight(prev_weight, ratio, p)
        delta == Sub(target, prev_weight)
    IN  IF Le(Abs(delta), EPS)
        THEN [weight |-> prev_weight, action |-> "HOLD", tag |-> "hold"]
        ELSE IF Gt(delta, Zero)
             THEN [weight |-> target, action |-> "BUY / REBALANCE UP", tag |-> "buy"]
             ELSE [weight |-> target, action |-> "SELL / REBALANCE DOWN", tag |-> "sell"]

\* the locals of target_weight(prev_weight, ratio, p), kept for inspection
TargetCall(prev_weight, ratio, p) ==
    [prev_weight |-> prev_weight,
     ratio |-> ratio,
     ladder_weight |-> IF isfinite(ratio) /\ Ge(ratio, p.sell_start)
                       THEN sell_weight(ratio, p.sell_start, p.ladder)
                       ELSE None,
     target |-> target_weight(prev_weight, ratio, p)]

(***************************************************************************)
(* StrategyEngine.compute_weight_series(ratios, dates, params, start_idx)  *)
(***************************************************************************)
Init ==
    /\ params \in StrategyParams
    /\ ratios \in RatioLists
    /\ start_idx \in 0..MaxStartIdx
    /\ pc = "loop"
    /\ i = start_idx
    /\ weight = params.start_weight
    /\ weights = [k \in 1..Len(ratios) |-> None]
    /\ last_trade = None
    /\ call = None
    /\ step = None
    /\ prices = <<>>
    /\ bt = None
    /\ md = None
    /\ df = <<>>
    /\ ch = None
    /\ feed = None
    /\ api = None

\* one iteration of `for i in range(start_idx, len(ratios))`
LoopBody ==
    /\ pc = "loop"
    /\ i < Len(ratios)
    /\ LET ratio == ratios[i + 1]
           s == step_weight(weight, ratio, params)
           changed == Gt(Abs(Sub(s.weight, weight)), EPS)
       IN  /\ step' = s
           /\ call' = TargetCall(weight, ratio, params)
           /\ last_trade' = IF changed
                            THEN [date |-> dates[i + 1], action |-> s.action,
                                  ratio |-> ratio, weight |-> s.weight, tag |-> s.tag]
                            ELSE last_trade
           /\ weight' = s.weight
           /\ weights' = [weights EXCEPT ![i + 1] = s.weight]
    /\ i' = i + 1
    /\ UNCHANGED <<params, ratios, start_idx, pc, service_vars>>
    /\ UNCHANGED <<backtest_vars, md, channel_vars, service_vars>>

\* the loop is exhausted: return weights, last_trade
Return ==
    /\ pc = "loop"
    /\ i >= Len(ratios)
    /\ pc' = "done"
    /\ UNCHANGED <<params, ratios, start_idx, i, weight, weights, last_trade, call, step, service_vars>>
    /\ UNCHANGED <<backtest_vars, md, channel_vars, service_vars>>

Next == LoopBody \/ Return

Spec == Init /\ [][Next]_vars

TypeOK ==
    /\ pc \in {"loop", "done"}
    /\ Len(weights) = Len(ratios)

(***************************************************************************)
(* Vocabulary of the properties.  Days are 0-based as in the source; the   *)
(* days start_idx .. i-1 have been processed.                              *)
(***************************************************************************)
Processed == {k \in 0..(Len(ratios) - 1) : start_idx <= k /\ k < i}
Position(k) == ratios[k + 1]
Allocation(k) == weights[k + 1]
\* the allocation before day k: the previous day's, start_weight on the first day
PrevAllocation(k) == IF k = start_idx THEN params.start_weight ELSE weights[k]
SellRegime(k) == isfinite(Position(k)) /\ Ge(Position(k), params.sell_start)
Stepped == call # None

\* C1: on every day whose position is finite and >= sell_start the allocation
\* is at most the previous day's allocation (start_weight on the first day).
C1_SellOnlyHysteresis ==
    \A k \in Processed :
        SellRegime(k) => Le(Allocation(k), PrevAllocation(k))

\* a sell-regime day whose ladder value lies above the previous allocation,
\* which is below 1.0 and is kept
C1_Witness ==
    \E k \in Processed :
        /\ SellRegime(k)
        /\ Gt(Position(k), params.sell_start)
        /\ Gt(PrevAllocation(k), Zero)
        /\ Lt(PrevAllocation(k), One)
        /\ Gt(sell_weight(Position(k), params.sell_start, params.ladder),
              PrevAllocation(k))
        /\ Allocation(k) = PrevAllocation(k)

\* C2: the returned list is as long as the position list, None before
\* start_idx and a number in [0, 1] from start_idx onward.
C2_SeriesShape ==
    pc = "done" =>
        /\ Len(weights) = Len(ratios)
        /\ \A k \in 0..(Len(ratios) - 1) :
              IF k < start_idx
              THEN Allocation(k) = None
              ELSE /\ Allocation(k) # None
                   /\ isfinite(Allocation(k))
                   /\ Ge(Allocation(k), Zero)
                   /\ Le(Allocation(k), One)

\* a returned series with an unset entry before start_idx and an entry
\* strictly inside (0, 1) after it
C2_Witness ==
    /\ pc = "done"
    /\ start_idx = 1
    /\ Len(ratios) >= 2
    /\ Allocation(0) = None
    /\ Gt(Allocation(1), Zero)
    /\ Lt(Allocation(1), One)

\* C3: sell_weight(position = 100, sell_start, ladder) is 0.0 for every ladder
\* and every sell_start in [0, 100].
C3_ZeroAtPeak ==
    (Stepped /\ call.ratio = Hundred) => call.ladder_weight = Zero

\* the ladder value L(x) of the specification
LadderValue(x, ladder) ==
    CASE ladder = "g0" -> Sub(One, Mul(x, x))
      [] ladder = "g1" -> Sub(One, x)
      [] ladder = "g2" -> Mul(Sub(One, x), Sub(One, x))

\* C4: for sell_start < 100 and a finite position in [sell_start, 100],
\* sell_weight is L(x) with x = (position - sell_start)/(100 - sell_start):
\* 1.0 at position = sell_start and 0.75 / 0.5 / 0.25 at x = 0.5.
C4_LadderValue ==
    (Stepped /\ call.ladder_weight # None /\ Lt(params.sell_start, Hundred)) =>
        LET x == Div(Sub(call.ratio, params.sell_start),
                     Sub(Hundred, params.sell_start))
        IN  /\ call.ladder_weight = LadderValue(x, params.ladder)
            /\ call.ratio = params.sell_start => call.ladder_weight = One
            /\ x = Frac(1, 2) =>
                  call.ladder_weight =
                      CASE params.ladder = "g0" -> Frac(3, 4)
                        [] params.ladder = "g1" -> Frac(1, 2)
                        [] params.ladder = "g2" -> Frac(1, 4)

\* sell_weight was asked at the midpoint of the sell range of the soft ladder
C4_Witness ==
    /\ Stepped
    /\ params.ladder = "g0"
    /\ params.sell_start = Num(50)
    /\ call.ratio = Num(75)
    /\ call.ladder_weight = Frac(3, 4)

\* C5 as stated: in "wait" mode a position with buy_threshold < position <
\* sell_start leaves the allocation unchanged and any position <=
\* buy_threshold makes the allocation 1.0.
C5_WaitAsStated ==
    (Stepped /\ params.reentry_mode = "wait" /\ isfinite(call.ratio)) =>
        /\ (Lt(params.buy_threshold, call.ratio) /\ Lt(call.ratio, params.sell_start))
              => (call.target = call.prev_weight /\ step.weight = call.prev_weight)
        /\ Le(call.ratio, params.buy_threshold)
              => (call.target = One /\ step.weight = One)

\* C5 amended: the jump to 1.0 needs the position to be below sell_start as
\* well; at or above sell_start the sell regime applies whatever
\* buy_threshold is.
C5_WaitReentry ==
    (Stepped /\ params.reentry_mode = "wait" /\ isfinite(call.ratio)) =>
        /\ (Lt(params.buy_threshold, call.ratio) /\ Lt(call.ratio, params.sell_start))
              => (call.target = call.prev_weight /\ step.weight = call.prev_weight)
        /\ (Le(call.ratio, params.buy_threshold) /\ Lt(call.ratio, params.sell_start))
              => (call.target = One /\ step.weight = One)
        /\ Ge(call.ratio, params.sell_start)
              => call.target = Min(call.prev_weight, call.ladder_weight)

\* a "wait" run that held an allocation below 1.0 between the thresholds and
\* then re-entered at 1.0 at the buy threshold
C5_Witness ==
    /\ Stepped
    /\ params.reentry_mode = "wait"
    /\ i - 2 >= start_idx
    /\ isfinite(Position(i - 2))
    /\ isfinite(call.ratio)
    /\ Lt(params.buy_threshold, Position(i - 2))
    /\ Lt(Position(i - 2), params.sell_start)
    /\ Allocation(i - 2) = PrevAllocation(i - 2)
    /\ Lt(Allocation(i - 2), One)
    /\ Le(call.ratio, params.buy_threshold)
    /\ Lt(call.ratio, params.sell_start)
    /\ step.weight = One
    /\ step.tag = "buy"

\* C6: in "instant" mode, on every day whose position is finite and below
\* sell_start the allocation is exactly 1.0, whatever it was before.
C6_InstantReentry ==
    /\ (Stepped /\ params.reentry_mode = "instant" /\ isfinite(call.ratio)
          /\ Lt(call.ratio, params.sell_start))
         => (call.target = One /\ step.weight = One)
    /\ params.reentry_mode = "instant" =>
         \A k \in Processed :
             (isfinite(Position(k)) /\ Lt(Position(k), params.sell_start))
                 => Allocation(k) = One

\* an "instant" run that sold down to less than 1.0 and was back at 1.0 on the
\* next day, below sell_start
C6_Witness ==
    /\ Stepped
    /\ params.reentry_mode = "instant"
    /\ isfinite(call.ratio)
    /\ Lt(call.ratio, params.sell_start)
    /\ Lt(call.prev_weight, One)
    /\ Gt(call.prev_weight, Zero)
    /\ step.weight = One
    /\ step.tag = "buy"

\* C7: in "gradual" mode, on a day with finite position below sell_start and
\* previous allocation c, the new allocation computed by target_weight is
\* c + (1 - c) * f^2 with f = clamp((sell_start - position)/sell_start, 0, 1);
\* it is never below c and never above 1.0.  The day's allocation is that
\* value, or c itself when the two are within the 1e-12 tolerance of
\* step_weight, and is never below c nor above 1.0 either.
C7_GradualReentry ==
    (Stepped /\ params.reentry_mode = "gradual" /\ isfinite(call.ratio)
       /\ Lt(call.ratio, params.sell_start)) =>
        LET c == call.prev_weight
            q == Div(Sub(params.sell_start, call.ratio), params.sell_start)
            f == IF Lt(q, Zero) THEN Zero ELSE IF Gt(q, One) THEN One ELSE q
        IN  /\ call.target = Add(c, Mul(Sub(One, c), Mul(f, f)))
            /\ Ge(call.target, c)
            /\ Le(call.target, One)
            /\ \/ step.weight = call.target
               \/ step.weight = c /\ Le(Sub(call.target, c), EPS)
            /\ Ge(step.weight, c)
            /\ Le(step.weight, One)

\* a gradual step half-way below sell_start: from 0.5 to 0.5 + 0.5 * 0.25
C7_Witness ==
    /\ Stepped
    /\ params.reentry_mode = "gradual"
    /\ params.sell_start = Num(50)
    /\ call.ratio = Num(25)
    /\ call.prev_weight = Frac(1, 2)
    /\ call.target = Frac(5, 8)
    /\ step.weight = Frac(5, 8)

\* C8: on a day whose position is non-finite the allocation equals the
\* previous allocation, the step is tagged hold and no change event is
\* recorded for that day.
C8_NonFiniteHolds ==
    /\ (Stepped /\ ~isfinite(call.ratio)) =>
          /\ call.target = call.prev_weight
          /\ step.weight = call.prev_weight
          /\ step.tag = "hold"
          /\ weight = call.prev_weight
    /\ \A k \in Processed :
          ~isfinite(Position(k)) =>
              /\ Allocation(k) = PrevAllocation(k)
              /\ last_trade # None => last_trade.date # dates[k + 1]

\* a non-finite day after a day that traded: the allocation below 1.0 and the
\* earlier event are both kept
C8_Witness ==
    /\ Stepped
    /\ ~isfinite(call.ratio)
    /\ i - 2 >= start_idx
    /\ Lt(weight, One)
    /\ Allocation(i - 1) = Allocation(i - 2)
    /\ last_trade # None
    /\ last_trade.date = dates[i - 1]

\* C9: step_weight tags a step buy exactly when the target exceeds the
\* previous allocation by more than 1e-12, sell exactly when it is lower by
\* more than 1e-12 and hold otherwise; a hold returns the previous allocation,
\* a buy or sell the target.
C9_StepTags ==
    Stepped =>
        LET delta == Sub(call.target, call.prev_weight)
        IN  /\ step.tag \in {"buy", "sell", "hold"}
            /\ step.tag = "buy" <=> Gt(delta, EPS)
            /\ step.tag = "sell" <=> Lt(delta, Neg(EPS))
            /\ step.tag = "hold" => step.weight = call.prev_weight
            /\ step.tag # "hold" => step.weight = call.target

\* a step whose target differs from the previous allocation by exactly
\* 1e-12: it is a hold and the previous allocation is returned
C9_Witness ==
    /\ Stepped
    /\ Abs(Sub(call.target, call.prev_weight)) = EPS
    /\ step.tag = "hold"
    /\ step.weight = call.prev_weight
    /\ step.weight # call.target

\* the days on which the allocation differs from the previous day's
ChangeDays == {k \in Processed : Allocation(k) # PrevAllocation(k)}
LastChangeDay == CHOOSE k \in ChangeDays : \A m \in ChangeDays : m <= k

\* C10: after compute_weight_series, last_trade is None exactly when the
\* allocation never changed from start_weight; otherwise it holds the date,
\* position and new allocation of the last day on which the allocation
\* differs from the previous day's, tagged buy or sell by the direction of
\* that change, never hold.
C10_LastTrade ==
    pc = "done" =>
        /\ last_trade = None <=>
              \A k \in Processed : Allocation(k) = params.start_weight
        /\ last_trade = None <=> ChangeDays = {}
        /\ last_trade # None =>
              LET k == LastChangeDay
              IN  /\ last_trade.date = dates[k + 1]
                  /\ last_trade.ratio = Position(k)
                  /\ last_trade.weight = Allocation(k)
                  /\ last_trade.tag =
                        IF Gt(Allocation(k), PrevAllocation(k)) THEN "buy" ELSE "sell"
                  /\ last_trade.tag # "hold"

\* a finished run whose last change is a sell on the first day, followed by a
\* day that held
C10_Witness ==
    /\ pc = "done"
    /\ Len(ratios) >= 2
    /\ start_idx = 0
    /\ last_trade # None
    /\ last_trade.date = dates[Len(ratios) - 1]
    /\ last_trade.tag = "sell"
    /\ step.tag = "hold"

(***************************************************************************)
(* max_drawdown(values)  (core/utils.py)                                   *)
(***************************************************************************)
\* float('-inf'), the initial peak
NegInf == [nonfinite |-> "-inf"]

\* the loop keeping the latest drawdown instead of the deepest one
RECURSIVE max_drawdown_loop_Latest(_, _, _, _)
max_drawdown_loop_Latest(values, k, peak, max_dd) ==
    IF k > Len(values) THEN max_dd
    ELSE LET v == values[k]
         IN  IF v = None \/ ~isfinite(v)
             THEN max_drawdown_loop_Latest(values, k + 1, peak, max_dd)
             ELSE LET new_peak == IF peak = NegInf \/ Gt(v, peak) THEN v ELSE peak
                      dd == IF Gt(new_peak, Zero)
                            THEN Sub(Div(v, new_peak), One)
                            ELSE Zero
                  IN  max_drawdown_loop_Latest(values, k + 1, new_peak, dd)

\* the for loop of max_drawdown from the k-th value on
RECURSIVE max_drawdown_loop(_, _, _, _)
max_drawdown_loop(values, k, peak, max_dd) ==
    IF k > Len(values) THEN max_dd
    ELSE LET v == values[k]
         IN  IF v = None \/ ~isfinite(v)
             THEN max_drawdown_loop(values, k + 1, peak, max_dd)
             ELSE LET new_peak == IF peak = NegInf \/ Gt(v, peak) THEN v ELSE peak
                      dd == IF Gt(new_peak, Zero)
                            THEN Sub(Div(v, new_peak), One)
                            ELSE Zero
                  IN  max_drawdown_loop(values, k + 1, new_peak,
                                        IF Lt(dd, max_dd) THEN dd ELSE max_dd)

max_drawdown(values) == max_drawdown_loop(values, 1, NegInf, Zero)

\* a call of max_drawdown on a list of equity values
MaxValues == 5

EquityValues == {Frac(9, 10), One, Frac(6, 5), Frac(3, 2), Frac(9, 5), Zero, NaN}
EquityLists == UNION {[1..n -> EquityValues] : n \in 0..MaxValues}

InitDrawdown ==
    /\ md \in [values : EquityLists, ret : {None}]
    /\ params \in {None}
    /\ ratios = <<>>
    /\ start_idx = 0
    /\ pc = "done"
    /\ i = 0
    /\ weight = None
    /\ weights = <<>>
    /\ last_trade = None
    /\ call = None
    /\ step = None
    /\ prices = <<>>
    /\ bt = None
    /\ df = <<>>
    /\ ch = None
    /\ feed = None
    /\ api = None

CallMaxDrawdown ==
    /\ md.ret = None
    /\ md' = [md EXCEPT !.ret = max_drawdown(md.values)]
    /\ UNCHANGED <<params, ratios, start_idx, pc, i, weight, weights, last_trade,
                   call, step, backtest_vars, channel_vars, service_vars>>

NextDrawdown == CallMaxDrawdown

SpecDrawdown == InitDrawdown /\ [][NextDrawdown]_vars

\* the values of the call are positive numbers
PositiveValues ==
    \A k \in 1..Len(md.values) :
        isfinite(md.values[k]) /\ Gt(md.values[k], Zero)
\* the largest of the first k values, and the drawdown at the k-th
RunningMax(k) ==
    CHOOSE m \in {md.values[j] : j \in 1..k} :
        \A j \in 1..k : Le(md.values[j], m)
DrawdownAt(k) == Sub(Div(md.values[k], RunningMax(k)), One)
NeverFalls ==
    \A j, k \in 1..Len(md.values) : j < k => Ge(md.values[k], md.values[j])

\* C14: max_drawdown of a sequence of positive equity values is the minimum
\* over its points of value / running maximum - 1; it is never positive, and
\* it is exactly 0 when the sequence never falls below an earlier value;
\* [1.0, 1.5, 1.2, 1.8, 0.9] gives 0.9/1.8 - 1 = -0.5.
C14_MaxDrawdown ==
    (md.ret # None /\ PositiveValues) =>
        /\ Len(md.values) > 0 =>
              /\ \E k \in 1..Len(md.values) : md.ret = DrawdownAt(k)
              /\ \A k \in 1..Len(md.values) : Le(md.ret, DrawdownAt(k))
        /\ Le(md.ret, Zero)
        /\ NeverFalls => md.ret = Zero
        /\ md.values = <<One, Frac(3, 2), Frac(6, 5), Frac(9, 5), Frac(9, 10)>>
              => md.ret = Sub(Div(Frac(9, 10), Frac(9, 5)), One)

\* the call max_drawdown([1.0, 1.5, 1.2, 1.8, 0.9]) returned -0.5, the
\* drawdown of its last point and deeper than the one at 1.2
C14_Witness ==
    /\ md.values = <<One, Frac(3, 2), Frac(6, 5), Frac(9, 5), Frac(9, 10)>>
    /\ md.ret = Neg(Frac(1, 2))
    /\ md.ret = DrawdownAt(5)
    /\ Lt(md.ret, DrawdownAt(3))

(***************************************************************************)
(* run_backtest(dates, prices, ratios, params, start_idx)                  *)
(* (core/backtest.py).  The call of compute_weight_series is the loop      *)
(* above; the locals of run_backtest are the fields of bt.  Lists are      *)
(* 1-based: hodl_equity[k + 1] is the source's hodl_equity[k].             *)
(***************************************************************************)
MaxDays == 3

\* inputs of the backtest: prices, positions, parameters
BacktestPrices == {Num(100), Num(200), Zero, NaN}
BacktestPositions == {Num(25), Num(75)}
BacktestParams == [ladder : {"g1"}, sell_start : {Num(50)},
                   buy_threshold : {Num(25)}, reentry_mode : {"instant"},
                   start_weight : {Frac(1, 2), One}]

\* x[start_idx:]
Slice(x, from) == [k \in 1..(IF Len(x) > from THEN Len(x) - from ELSE 0) |-> x[k + from]]

\* `v or 1.0`
OrOne(v) == IF v = None \/ v = Zero THEN One ELSE v

\* the values of a list that are not None
NotNone(x) == SelectSeq(x, LAMBDA v : v # None)

\* the state on entry of run_backtest, inside compute_weight_series;
\* first is the result of the previous call with the same arguments
Entered(first) ==
    [pc |-> "weights", i |-> 0, prices_slice |-> <<>>, weights_slice |-> <<>>,
     hodl_equity |-> <<>>, strategy_equity |-> <<>>, result |-> None,
     first |-> first]

InitBacktest ==
    /\ params \in BacktestParams
    /\ \E n \in 2..MaxDays :
          /\ ratios \in [1..n -> BacktestPositions]
          /\ prices \in [1..n -> BacktestPrices]
          /\ start_idx \in {s \in 0..MaxStartIdx : s < n - 1}
    /\ pc = "loop"
    /\ i = start_idx
    /\ weight = params.start_weight
    /\ weights = [k \in 1..Len(ratios) |-> None]
    /\ last_trade = None
    /\ call = None
    /\ step = None
    /\ bt = Entered(None)
    /\ md = None
    /\ df = <<>>
    /\ ch = None
    /\ feed = None
    /\ api = None

\* compute_weight_series returned: slice the inputs and seed both curves
SliceAndSeed ==
    /\ bt.pc = "weights"
    /\ pc = "done"
    /\ LET prices_slice == Slice(prices, start_idx)
           n == Len(Slice(dates, start_idx))
           seeded == [k \in 1..n |-> IF k = 1 THEN One ELSE None]
       IN  bt' = IF n = 0
                 THEN [bt EXCEPT !.pc = "IndexError"]
                 ELSE [bt EXCEPT !.pc = "loop", !.i = 0,
                                 !.prices_slice = prices_slice,
                                 !.weights_slice = Slice(weights, start_idx),
                                 !.hodl_equity = seeded,
                                 !.strategy_equity = seeded]
    /\ UNCHANGED <<params, ratios, start_idx, pc, i, weight, weights, last_trade,
                   call, step, prices, md, channel_vars, service_vars>>

\* the break condition of the simulation loop at index k (0-based)
BadStep(k) ==
    LET p0 == bt.prices_slice[k + 1]
        p1 == bt.prices_slice[k + 2]
        wi == bt.weights_slice[k + 1]
    IN  IF ~isfinite(p0) \/ ~isfinite(p1) THEN TRUE
        ELSE Le(p0, Zero) \/ wi = None

\* the return of a portfolio holding the fraction wi in the asset
portfolio_return_NoCash(wi, btc_return) == Mul(wi, btc_return)

\* the cash part weighted by wi instead of 1 - wi
portfolio_return_CashWeight(wi, btc_return) ==
    Add(Mul(wi, btc_return), Mul(wi, One))

portfolio_return(wi, btc_return) ==
    Add(Mul(wi, btc_return), Mul(Sub(One, wi), One))

\* an iteration that applies the allocation of the following day
SimulateStep_NextDay ==
    /\ bt.pc = "loop"
    /\ bt.i < Len(bt.prices_slice) - 1
    /\ ~BadStep(bt.i)
    /\ LET p0 == bt.prices_slice[bt.i + 1]
           p1 == bt.prices_slice[bt.i + 2]
           wi == bt.weights_slice[bt.i + 2]
           btc_return == Div(p1, p0)
       IN  bt' = [bt EXCEPT
                    !.hodl_equity[bt.i + 2] =
                        Mul(OrOne(bt.hodl_equity[bt.i + 1]), btc_return),
                    !.strategy_equity[bt.i + 2] =
                        Mul(OrOne(bt.strategy_equity[bt.i + 1]),
                            portfolio_return(wi, btc_return)),
                    !.i = bt.i + 1]
    /\ UNCHANGED <<params, ratios, start_idx, pc, i, weight, weights, last_trade,
                   call, step, prices, md, channel_vars, service_vars>>

\* one iteration of `for i in range(n - 1)` that does not break
SimulateStep ==
    /\ bt.pc = "loop"
    /\ bt.i < Len(bt.prices_slice) - 1
    /\ ~BadStep(bt.i)
    /\ LET p0 == bt.prices_slice[bt.i + 1]
           p1 == bt.prices_slice[bt.i + 2]
           wi == bt.weights_slice[bt.i + 1]
           btc_return == Div(p1, p0)
       IN  bt' = [bt EXCEPT
                    !.hodl_equity[bt.i + 2] =
                        Mul(OrOne(bt.hodl_equity[bt.i + 1]), btc_return),
                    !.strategy_equity[bt.i + 2] =
                        Mul(OrOne(bt.strategy_equity[bt.i + 1]),
                            portfolio_return(wi, btc_return)),
                    !.i = bt.i + 1]
    /\ UNCHANGED <<params, ratios, start_idx, pc, i, weight, weights, last_trade,
                   call, step, prices, md, channel_vars, service_vars>>

\* the loop skipping a bad step instead of leaving
Halt_Continue ==
    /\ bt.pc = "loop"
    /\ bt.i < Len(bt.prices_slice) - 1
    /\ BadStep(bt.i)
    /\ bt' = [bt EXCEPT !.i = bt.i + 1]
    /\ UNCHANGED <<params, ratios, start_idx, pc, i, weight, weights, last_trade,
                   call, step, prices, md, channel_vars, service_vars>>

\* `break`: leave the loop at the first bad step
Halt ==
    /\ bt.pc = "loop"
    /\ bt.i < Len(bt.prices_slice) - 1
    /\ BadStep(bt.i)
    /\ bt' = [bt EXCEPT !.pc = "metrics"]
    /\ UNCHANGED <<params, ratios, start_idx, pc, i, weight, weights, last_trade,
                   call, step, prices, md, channel_vars, service_vars>>

\* the loop is exhausted
LoopEnd ==
    /\ bt.pc = "loop"
    /\ bt.i >= Len(bt.prices_slice) - 1
    /\ bt' = [bt EXCEPT !.pc = "metrics"]
    /\ UNCHANGED <<params, ratios, start_idx, pc, i, weight, weights, last_trade,
                   call, step, prices, md, channel_vars, service_vars>>

\* the entry before the last one taken for the final entry
LastOrOne_Previous(x) == IF x[Len(x) - 1] # None THEN x[Len(x) - 1] ELSE One

\* the last entry that is set taken for the final entry
LastOrOne_LastSet(x) == NotNone(x)[Len(NotNone(x))]

\* x[-1] if x[-1] is not None else 1.0
LastOrOne(x) == IF x[Len(x)] # None THEN x[Len(x)] ELSE One

\* the BacktestResult built from the locals
BacktestResult(b) ==
    [dates |-> Slice(dates, start_idx),
     weights |-> b.weights_slice,
     strategy_equity |-> b.strategy_equity,
     hodl_equity |-> b.hodl_equity,
     strategy_return |-> Sub(LastOrOne(b.strategy_equity), One),
     hodl_return |-> Sub(LastOrOne(b.hodl_equity), One),
     strategy_max_drawdown |-> max_drawdown(NotNone(b.strategy_equity)),
     hodl_max_drawdown |-> max_drawdown(NotNone(b.hodl_equity)),
     last_trade |-> last_trade]

\* final metrics and return
Metrics ==
    /\ bt.pc = "metrics"
    /\ bt' = [bt EXCEPT !.pc = "returned", !.result = BacktestResult(bt)]
    /\ UNCHANGED <<params, ratios, start_idx, pc, i, weight, weights, last_trade,
                   call, step, prices, md, channel_vars, service_vars>>

\* a second call that starts from the allocation the first call ended with
CallAgain_KeepsWeight ==
    /\ bt.pc = "returned"
    /\ bt.first = None
    /\ bt' = Entered(bt.result)
    /\ pc' = "loop"
    /\ i' = start_idx
    /\ weights' = [k \in 1..Len(ratios) |-> None]
    /\ last_trade' = None
    /\ UNCHANGED <<params, ratios, start_idx, weight, call, step, prices, md,
                   channel_vars, service_vars>>

\* a second call of run_backtest with the same arguments
CallAgain ==
    /\ bt.pc = "returned"
    /\ bt.first = None
    /\ bt' = Entered(bt.result)
    /\ pc' = "loop"
    /\ i' = start_idx
    /\ weight' = params.start_weight
    /\ weights' = [k \in 1..Len(ratios) |-> None]
    /\ last_trade' = None
    /\ UNCHANGED <<params, ratios, start_idx, call, step, prices, md, channel_vars, service_vars>>

NextBacktest ==
    LoopBody \/ Return \/ SliceAndSeed \/ SimulateStep \/ Halt \/ LoopEnd \/ Metrics \/ CallAgain

SpecBacktest == InitBacktest /\ [][NextBacktest]_vars

(***************************************************************************)
(* Vocabulary of the backtest properties.  Steps are 0-based as in the     *)
(* source; the steps 0 .. bt.i - 1 have been simulated.                    *)
(***************************************************************************)
Seeded == bt.pc \in {"loop", "metrics", "returned"}
Days == Len(bt.prices_slice)
Simulated == 0..(bt.i - 1)
Price(t) == bt.prices_slice[t + 1]
Held(t) == bt.weights_slice[t + 1]
Hodl(t) == bt.hodl_equity[t + 1]
Strategy(t) == bt.strategy_equity[t + 1]
RanThrough == bt.i = Days - 1

\* C11: in run_backtest both equity curves start at 1.0 and, for every
\* simulated step t, hodl_equity[t+1] = hodl_equity[t] * price[t+1]/price[t]
\* and strategy_equity[t+1] = strategy_equity[t] * (w * price[t+1]/price[t]
\* + (1 - w)) with w the allocation of day t; prices [100, 200, 100] at full
\* allocation give the equity [1.0, 2.0, 1.0].
C11_EquityCurves ==
    Seeded =>
        /\ Hodl(0) = One
        /\ Strategy(0) = One
        /\ \A t \in Simulated :
              LET r == Div(Price(t + 1), Price(t))
                  w == Held(t)
              IN  /\ Hodl(t + 1) = Mul(Hodl(t), r)
                  /\ Strategy(t + 1) =
                        Mul(Strategy(t), Add(Mul(w, r), Sub(One, w)))
        /\ (/\ bt.prices_slice = <<Num(100), Num(200), Num(100)>>
            /\ Held(0) = One
            /\ Held(1) = One
            /\ bt.pc = "returned")
           => /\ bt.hodl_equity = <<One, Num(2), One>>
              /\ bt.strategy_equity = <<One, Num(2), One>>

\* a returned backtest over the prices [100, 200, 100] at full allocation:
\* both steps were simulated and both curves are [1.0, 2.0, 1.0]
C11_Witness ==
    /\ bt.pc = "returned"
    /\ bt.prices_slice = <<Num(100), Num(200), Num(100)>>
    /\ Held(0) = One
    /\ Held(1) = One
    /\ Simulated = {0, 1}
    /\ bt.hodl_equity = <<One, Num(2), One>>
    /\ bt.strategy_equity = <<One, Num(2), One>>

\* the steps at which the data is bad: a non-finite price at either end, a
\* price <= 0 at the start, or no allocation
BadData(t) ==
    IF ~isfinite(Price(t)) \/ ~isfinite(Price(t + 1)) THEN TRUE
    ELSE Le(Price(t), Zero) \/ Held(t) = None
BadSteps == {t \in 0..(Days - 2) : BadData(t)}
FirstBad == CHOOSE t \in BadSteps : \A u \in BadSteps : t <= u
\* the last index the simulation can set
LastSet == IF BadSteps = {} THEN Days - 1 ELSE FirstBad

\* C12: run_backtest halts at the first step t at which price[t] or
\* price[t+1] is non-finite, price[t] <= 0 or the allocation of day t is
\* undefined: both curves are set exactly on the indices 0..k, k that step
\* (the last day when no step is bad), and None on every later index, also
\* when good data follows; a result is still returned, with these curves.
C12_HaltsAtBadData ==
    /\ bt.pc = "loop" =>
          /\ bt.i <= LastSet
          /\ \A k \in 0..(Days - 1) :
                /\ Hodl(k) # None <=> k <= bt.i
                /\ Strategy(k) # None <=> k <= bt.i
    /\ bt.pc \in {"metrics", "returned"} =>
          /\ bt.i = LastSet
          /\ \A k \in 0..(Days - 1) :
                /\ Hodl(k) # None <=> k <= LastSet
                /\ Strategy(k) # None <=> k <= LastSet
    /\ bt.pc = "returned" =>
          /\ bt.result # None
          /\ bt.result.hodl_equity = bt.hodl_equity
          /\ bt.result.strategy_equity = bt.strategy_equity
    /\ bt.pc # "IndexError"

\* a returned backtest over the prices [0, 100, 200]: the first step is bad
\* (price 0), the second would be good; only index 0 of the curves is set
C12_Witness ==
    /\ bt.pc = "returned"
    /\ bt.prices_slice = <<Zero, Num(100), Num(200)>>
    /\ BadSteps = {0}
    /\ bt.result.hodl_equity = <<One, None, None>>
    /\ bt.result.strategy_equity = <<One, None, None>>

\* C13: when the simulation ran through the last day, each return reported
\* by run_backtest is the final entry of its curve minus 1.
C13_FinalReturn ==
    (bt.pc = "returned" /\ RanThrough) =>
        /\ Hodl(Days - 1) # None
        /\ Strategy(Days - 1) # None
        /\ bt.result.hodl_return = Sub(Hodl(Days - 1), One)
        /\ bt.result.strategy_return = Sub(Strategy(Days - 1), One)

\* a backtest that ran through three days, the price doubling on the first
\* at half allocation and staying on the second: the hold return is 1.0,
\* the strategy return 0.5
C13_Witness ==
    /\ bt.pc = "returned"
    /\ RanThrough
    /\ bt.prices_slice = <<Num(100), Num(200), Num(200)>>
    /\ Held(0) = Frac(1, 2)
    /\ bt.result.hodl_return = One
    /\ bt.result.strategy_return = Frac(1, 2)

TargetDate == 6
MaxRows == 3

FirstDates == {1, 2}
ChannelPrices == {Num(100), Num(200), Num(300), Zero, Num(-100), None}
\* the price lines of one observed day: [peak, trough]
ChannelLines == {[peak |-> Num(300), trough |-> Num(100)],
                 [peak |-> Num(200), trough |-> Num(150)],
                 [peak |-> Num(200), trough |-> Num(200)],
                 [peak |-> Num(100), trough |-> Num(300)]}
ExtremaCounts == {0, 1, 2}

\* the frames load_btc_daily_from_coincodex returns: one row per day, the
\* dates unique and increasing
Frames ==
    UNION {{[k \in 1..n |-> [Date |-> d + k - 1, Price |-> p[k]]] :
               d \in FirstDates, p \in [1..n -> ChannelPrices]} : n \in 1..MaxRows}

\* df.sort_values("Date")
IsSortedByDate(s) == \A j, k \in 1..Len(s) : j < k => s[j].Date <= s[k].Date
Range(s) == {s[k] : k \in 1..Len(s)}
SortByDate(s) ==
    IF IsSortedByDate(s) THEN s
    ELSE CHOOSE t \in [1..Len(s) -> Range(s)] : Range(t) = Range(s) /\ IsSortedByDate(t)

\* df.dropna()
DropNa(s) == SelectSeq(s, LAMBDA row : row.Price # None)

\* C_SCALE = 10 ** mean(log10(Price) - b_exp * log10(days)): NaN when a price
\* is negative or there is no row, 0.0 when a price is 0
FitScale(rows) ==
    IF Len(rows) = 0 \/ \E k \in 1..Len(rows) : Lt(rows[k].Price, Zero) THEN "nan"
    ELSE IF \E k \in 1..Len(rows) : rows[k].Price = Zero THEN "zero"
    ELSE "ok"

\* df_full[df_full["R"] > 0] with R = Price / (C_SCALE * days ** b_exp)
PositiveR(rows, scale) ==
    IF scale = "nan" THEN <<>>
    ELSE SelectSeq(rows, LAMBDA row : Gt(row.Price, Zero))

\* the position of one day (ratio[k] of the source)
channel_ratio_Unclipped(price, current_peak, current_trough) ==
    LET width == Sub(current_peak, current_trough)
    IN  IF Gt(width, Zero)
        THEN Mul(Div(Sub(price, current_trough), width), Hundred)
        ELSE Zero

channel_ratio(price, current_peak, current_trough) ==
    LET width == Sub(current_peak, current_trough)
        ok == Gt(width, Zero)
        filled == IF ok
                  THEN Mul(Div(Sub(price, current_trough), width), Hundred)
                  ELSE Zero
    IN  Max(Zero, Min(Hundred, filled))

Called ==
    [pc |-> "called", rows |-> <<>>, scale |-> "unfitted", fitted_on |-> <<>>,
     n_peaks |-> None, n_troughs |-> None, peak_fit |-> "unfitted",
     trough_fit |-> "unfitted",
     all_days_extended |-> <<>>, all_dates_extended |-> <<>>, lines |-> <<>>,
     extended_fair |-> 0, peak_price_line |-> 0, trough_price_line |-> 0,
     ratio |-> <<>>, payload |-> None]

InitChannel ==
    /\ df \in Frames
    /\ ch = Called
    /\ feed = None
    /\ api = None
    /\ params \in {None}
    /\ ratios = <<>>
    /\ start_idx = 0
    /\ pc = "done"
    /\ i = 0
    /\ weight = None
    /\ weights = <<>>
    /\ last_trade = None
    /\ call = None
    /\ step = None
    /\ prices = <<>>
    /\ bt = None
    /\ md = None

\* sort, dropna, days, the power-law fit and the R > 0 filter
FitFairValue ==
    /\ ch.pc = "called"
    /\ LET rows == DropNa(SortByDate(df))
           scale == FitScale(rows)
       IN  ch' = [ch EXCEPT !.pc = "fitted",
                            !.fitted_on = rows,
                            !.scale = scale,
                            !.rows = PositiveR(rows, scale)]
    /\ UNCHANGED <<params, ratios, start_idx, pc, i, weight, weights, last_trade,
                   call, step, backtest_vars, md, df, service_vars>>

\* find_peaks on log10_R and on -log10_R: a local extremum has a lower
\* (higher) neighbour on both sides, and a constant series has none
DetectExtrema ==
    /\ ch.pc = "fitted"
    /\ \E np \in ExtremaCounts, nt \in ExtremaCounts :
          /\ (ch.scale # "ok" \/ Len(ch.rows) < 3) => (np = 0 /\ nt = 0)
          /\ ch' = [ch EXCEPT !.pc = "detected", !.n_peaks = np, !.n_troughs = nt]
    /\ UNCHANGED <<params, ratios, start_idx, pc, i, weight, weights, last_trade,
                   call, step, backtest_vars, md, df, service_vars>>

\* LinearRegression().fit(days, vals): needs at least one sample, and fits
\* a flat line through a single one
regression(n) == IF n = 0 THEN "ValueError" ELSE IF n = 1 THEN "flat" ELSE "line"

\* the two fits: the first that fails raises
FitLines ==
    /\ ch.pc = "detected"
    /\ LET peak_fit == regression(ch.n_peaks)
           trough_fit == regression(ch.n_troughs)
       IN  ch' = IF peak_fit = "ValueError"
                 THEN [ch EXCEPT !.pc = "ValueError"]
                 ELSE IF trough_fit = "ValueError"
                 THEN [ch EXCEPT !.pc = "ValueError", !.peak_fit = peak_fit]
                 ELSE [ch EXCEPT !.pc = "regressed", !.peak_fit = peak_fit,
                                 !.trough_fit = trough_fit]
    /\ UNCHANGED <<params, ratios, start_idx, pc, i, weight, weights, last_trade,
                   call, step, backtest_vars, md, df, service_vars>>

\* np.arange(first, stop)
arange(first, stop) == [k \in 1..(IF stop > first THEN stop - first ELSE 0) |-> first + k - 1]

\* the extension to target_date and the price lines over the extended days
Extend ==
    /\ ch.pc = "regressed"
    /\ LET n == Len(ch.rows)
           all_days_original == [k \in 1..n |-> ch.rows[k].Date + 1]
           last_date == ch.rows[n].Date
           num_additional_days == (TargetDate - last_date) + 1
           additional_days == arange(all_days_original[n] + 1,
                                     all_days_original[n] + 1 + num_additional_days)
           all_days_extended == all_days_original \o additional_days
           all_dates_extended ==
               [k \in 1..n |-> ch.rows[k].Date]
                   \o [k \in 1..Len(additional_days) |-> additional_days[k] - 1]
       IN  \E lines \in [1..n -> ChannelLines] :
              ch' = [ch EXCEPT !.pc = "extended",
                               !.all_days_extended = all_days_extended,
                               !.all_dates_extended = all_dates_extended,
                               !.lines = lines,
                               !.extended_fair = Len(all_days_extended),
                               !.peak_price_line = Len(all_days_extended),
                               !.trough_price_line = Len(all_days_extended)]
    /\ UNCHANGED <<params, ratios, start_idx, pc, i, weight, weights, last_trade,
                   call, step, backtest_vars, md, df, service_vars>>

\* the ratio indicator, the payload and the return
RatioAndPayload ==
    /\ ch.pc = "extended"
    /\ LET n == Len(ch.rows)
           ratio == [k \in 1..n |->
                        channel_ratio(ch.rows[k].Price, ch.lines[k].peak,
                                      ch.lines[k].trough)]
       IN  ch' = [ch EXCEPT
                    !.pc = "returned",
                    !.ratio = ratio,
                    !.payload =
                        [meta |-> [start |-> ch.rows[1].Date, end |-> ch.rows[n].Date],
                         series |-> [date |-> [k \in 1..n |-> ch.rows[k].Date],
                                     price |-> [k \in 1..n |-> ch.rows[k].Price],
                                     ratio |-> ratio],
                         extended |-> [date |-> ch.all_dates_extended,
                                       fair |-> ch.extended_fair,
                                       peak_line_price |-> ch.peak_price_line,
                                       trough_line_price |-> ch.trough_price_line]]]
    /\ UNCHANGED <<params, ratios, start_idx, pc, i, weight, weights, last_trade,
                   call, step, backtest_vars, md, df, service_vars>>

NextChannel == FitFairValue \/ DetectExtrema \/ FitLines \/ Extend \/ RatioAndPayload

SpecChannel == InitChannel /\ [][NextChannel]_vars

(***************************************************************************)
(* Vocabulary of the channel properties.  Observed days are numbered from  *)
(* 1, in the order of the emitted series.                                  *)
(***************************************************************************)
Emitted == ch.pc = "returned"
ObservedDays == 1..Len(ch.rows)
ObservedPrice(k) == ch.payload.series.price[k]
PeakBound(k) == ch.lines[k].peak
TroughBound(k) == ch.lines[k].trough
EmittedPosition(k) == ch.payload.series.ratio[k]
IsNumber(v) == v # None /\ isfinite(v)

\* C15: on an observed day whose peak bound is not above its trough bound,
\* the position emitted by compute_channel is an undefined marker, not a
\* number, while the positions of the other days are still emitted.
C15_UndefinedWhenDegenerate ==
    Emitted =>
        \A k \in ObservedDays :
            Le(Sub(PeakBound(k), TroughBound(k)), Zero) => ~IsNumber(EmittedPosition(k))

\* C16: on every observed day whose peak bound is above its trough bound the
\* emitted position is clamp(100 * (price - trough) / (peak - trough), 0, 100):
\* 0 when the price is at or below the trough bound, 100 when it is at or
\* above the peak bound; every emitted position lies in [0, 100].
C16_ClampedPosition ==
    Emitted =>
        \A k \in ObservedDays :
            /\ Gt(PeakBound(k), TroughBound(k)) =>
                  LET gap == Sub(PeakBound(k), TroughBound(k))
                      raw == Div(Mul(Hundred, Sub(ObservedPrice(k), TroughBound(k))), gap)
                  IN  /\ EmittedPosition(k) = clamp(raw, Zero, Hundred)
                      /\ Le(ObservedPrice(k), TroughBound(k)) => EmittedPosition(k) = Zero
                      /\ Ge(ObservedPrice(k), PeakBound(k)) => EmittedPosition(k) = Hundred
            /\ IsNumber(EmittedPosition(k))
            /\ Ge(EmittedPosition(k), Zero)
            /\ Le(EmittedPosition(k), Hundred)

\* a payload with a day inside the channel (position 50), a day below the
\* trough bound (position 0) and a day above the peak bound (position 100)
C16_Witness ==
    /\ Emitted
    /\ \E k \in ObservedDays :
          /\ Lt(TroughBound(k), ObservedPrice(k))
          /\ Lt(ObservedPrice(k), PeakBound(k))
          /\ EmittedPosition(k) = Num(50)
    /\ \E k \in ObservedDays :
          /\ Gt(PeakBound(k), TroughBound(k))
          /\ Lt(ObservedPrice(k), TroughBound(k))
          /\ EmittedPosition(k) = Zero
    /\ \E k \in ObservedDays :
          /\ Gt(PeakBound(k), TroughBound(k))
          /\ Gt(ObservedPrice(k), PeakBound(k))
          /\ EmittedPosition(k) = Hundred

\* the last observed date of the emitted series
LastObserved == ch.payload.series.date[Len(ch.payload.series.date)]

\* C17: when the last observed date is before the horizon 2030-12-31, the
\* extended date array is the observed dates followed by each consecutive
\* calendar day after the last observed one, its last date is exactly the
\* horizon, and the extended fair, peak and trough arrays have its length.
C17_ExtendsToHorizon ==
    (Emitted /\ LastObserved < TargetDate) =>
        LET date == ch.payload.extended.date
            n == Len(ch.payload.series.date)
        IN  /\ Len(date) > n
            /\ \A k \in 1..n : date[k] = ch.payload.series.date[k]
            /\ \A k \in (n + 1)..Len(date) : date[k] = date[k - 1] + 1
            /\ date[Len(date)] = TargetDate
            /\ ch.payload.extended.fair = Len(date)
            /\ ch.payload.extended.peak_line_price = Len(date)
            /\ ch.payload.extended.trough_line_price = Len(date)

\* C18: when the detection yields fewer than 2 peaks or fewer than 2
\* troughs, compute_channel signals an error: no line is fitted from 0 or 1
\* extremum and no payload is built on such a line.
C18_RejectsFewExtrema ==
    /\ ch.peak_fit # "unfitted" => ch.n_peaks >= 2
    /\ ch.trough_fit # "unfitted" => ch.n_troughs >= 2
    /\ ch.pc \in {"regressed", "extended", "returned"} =>
          ch.n_peaks >= 2 /\ ch.n_troughs >= 2

\* the frame holds a price <= 0, dates that do not strictly increase, or
\* fewer than 2 rows
InvalidFrame ==
    \/ Len(df) < 2
    \/ \E k \in 1..Len(df) : df[k].Price # None /\ Le(df[k].Price, Zero)
    \/ \E k \in 1..(Len(df) - 1) : df[k].Date >= df[k + 1].Date

\* C19: compute_channel rejects an input with a non-positive price, with
\* dates that do not strictly increase or with fewer than 2 rows before the
\* scale constant is fitted: no scale is ever fitted on such an input and
\* no payload is returned for it.
C19_RejectsBeforeFit ==
    InvalidFrame =>
        /\ ch.scale = "unfitted"
        /\ ch.fitted_on = <<>>
        /\ ~Emitted

\* the entries of a curve that the simulation set: indices 0 .. bt.i
SetPrefix(x) == SubSeq(x, 1, bt.i + 1)

\* C23: when run_backtest halted before the final day, so that the last
\* entry of the curves is None, both reported returns are exactly 0.0
\* whatever the partial curves reached, and the reported max drawdowns are
\* those of the set prefix of each curve.
C23_HaltedReturnsZero ==
    (bt.pc = "returned" /\ Hodl(Days - 1) = None) =>
        /\ ~RanThrough
        /\ bt.result.hodl_return = Zero
        /\ bt.result.strategy_return = Zero
        /\ bt.result.hodl_max_drawdown = max_drawdown(SetPrefix(bt.hodl_equity))
        /\ bt.result.strategy_max_drawdown = max_drawdown(SetPrefix(bt.strategy_equity))

\* a backtest over the prices [200, 100, NaN] that halted at the second
\* step: the hold curve reached 0.5, the reported hold return is 0.0 and
\* the reported hold drawdown -0.5
C23_Witness ==
    /\ bt.pc = "returned"
    /\ bt.i = 1
    /\ bt.hodl_equity = <<One, Frac(1, 2), None>>
    /\ bt.result.hodl_return = Zero
    /\ bt.result.strategy_return = Zero
    /\ bt.result.hodl_max_drawdown = Neg(Frac(1, 2))

\* C26: when the allocation is 1.0 on every simulated day, the strategy
\* curve equals the hold curve entry for entry, and the strategy return and
\* max drawdown equal the hold return and max drawdown.
C26_FullAllocationIsHold ==
    (Seeded /\ \A t \in Simulated : Held(t) = One) =>
        /\ \A k \in 0..(Days - 1) : Strategy(k) = Hodl(k)
        /\ bt.pc = "returned" =>
              /\ bt.result.strategy_equity = bt.result.hodl_equity
              /\ bt.result.strategy_return = bt.result.hodl_return
              /\ bt.result.strategy_max_drawdown = bt.result.hodl_max_drawdown

\* a returned run with start_weight 1.0, instant mode and every position
\* below sell_start, over the prices [200, 100, 200]: the allocation is 1.0
\* throughout and both curves are [1.0, 0.5, 1.0] with drawdown -0.5
C26_Witness ==
    /\ bt.pc = "returned"
    /\ params.start_weight = One
    /\ params.reentry_mode = "instant"
    /\ \A k \in 1..Len(ratios) : Lt(ratios[k], params.sell_start)
    /\ Simulated = {0, 1}
    /\ \A t \in Simulated : Held(t) = One
    /\ bt.result.strategy_equity = <<One, Frac(1, 2), One>>
    /\ bt.result.hodl_equity = <<One, Frac(1, 2), One>>
    /\ bt.result.strategy_max_drawdown = Neg(Frac(1, 2))

(***************************************************************************)
(* Runs of sell-regime days in compute_weight_series.                      *)
(***************************************************************************)
\* the first day of the maximal run of sell-regime days that day k is in
RunStart(k) ==
    CHOOSE a \in start_idx..k :
        /\ \A j \in a..k : SellRegime(j)
        /\ a = start_idx \/ ~SellRegime(a - 1)
\* the ladder value of day j, as sell_weight returns it
Ladder(j) == sell_weight(Position(j), params.sell_start, params.ladder)
\* min(allocation before the run, lowest ladder value of the run up to day k)
RunFloor(k) ==
    LET a == RunStart(k)
        S == {PrevAllocation(a)} \cup {Ladder(j) : j \in a..k}
    IN  CHOOSE m \in S : \A x \in S : Le(m, x)

\* C24 as stated: on each day of a maximal run of days with a finite
\* position >= sell_start the allocation equals min(allocation before the
\* run, lowest ladder value seen in the run so far).
C24_RunFloorAsStated ==
    \A k \in Processed : SellRegime(k) => Allocation(k) = RunFloor(k)

\* C24, amended: on each day of such a run the allocation is that minimum up
\* to the 1e-12 tolerance of step_weight: never below it, at most 1e-12
\* above it, and equal to it on every day the allocation changed; it never
\* rises within the run, also when the position falls back toward
\* sell_start.
C24_RunFloor ==
    \A k \in Processed :
        SellRegime(k) =>
            LET floor == RunFloor(k)
            IN  /\ Ge(Allocation(k), floor)
                /\ Le(Sub(Allocation(k), floor), EPS)
                /\ Allocation(k) # PrevAllocation(k) => Allocation(k) = floor
                /\ Le(Allocation(k), PrevAllocation(k))

\* a finished run of two sell-regime days: the position falls back to
\* sell_start on the second day, whose ladder value is 1.0, and the
\* allocation stays at the first day's lower ladder value
C24_Witness ==
    /\ pc = "done"
    /\ start_idx = 0
    /\ Len(ratios) = 2
    /\ SellRegime(0)
    /\ SellRegime(1)
    /\ RunStart(1) = 0
    /\ Position(1) = params.sell_start
    /\ Ladder(1) = One
    /\ Lt(Ladder(0), PrevAllocation(0))
    /\ Allocation(1) = Ladder(0)

(***************************************************************************)
(* run_backtest(params_dict) of the backtest page                          *)
(* (app/pages/03_Backtest.py): the start index is looked up from           *)
(* params.start_date, then BacktestEngine.run_backtest is called.  Dates   *)
(* are day numbers, ordered as the ISO strings of the source are.          *)
(***************************************************************************)
PagePrices == {Num(100), Num(200)}
\* the dates the date input can give: before, inside and after the series
StartDates == 0..(MaxDays + 1)
PageParams == [ladder : {"g1"}, sell_start : {Num(50)},
               buy_threshold : {Num(25)}, reentry_mode : {"instant"},
               start_weight : {Frac(1, 2), One}, start_date : StartDates]

InitPage ==
    /\ params \in PageParams
    /\ \E n \in 1..MaxDays :
          /\ ratios \in [1..n -> BacktestPositions]
          /\ prices \in [1..n -> PagePrices]
    /\ start_idx = 0
    /\ pc = "done"
    /\ i = 0
    /\ weight = params.start_weight
    /\ weights = [k \in 1..Len(ratios) |-> None]
    /\ last_trade = None
    /\ call = None
    /\ step = None
    /\ bt = [pc |-> "page"]
    /\ md = None
    /\ df = <<>>
    /\ ch = None
    /\ feed = None
    /\ api = None

\* next((i for i, d in enumerate(dates) if d >= start_date), 0)
first_index_from(start_date) ==
    LET hits == {k \in 0..(Len(dates) - 1) : dates[k + 1] >= start_date}
    IN  IF hits = {} THEN 0 ELSE CHOOSE k \in hits : \A m \in hits : k <= m

\* the page function up to its return of None or its call of the engine
PageRunBacktest ==
    /\ bt.pc = "page"
    /\ LET idx == first_index_from(params.start_date)
       IN  /\ start_idx' = idx
           /\ IF idx >= Len(dates) - 1
              THEN /\ bt' = [pc |-> "none"]
                   /\ UNCHANGED <<pc, i, weight, weights, last_trade, service_vars>>
              ELSE /\ bt' = Entered(None)
                   /\ pc' = "loop"
                   /\ i' = idx
                   /\ weight' = params.start_weight
                   /\ weights' = [k \in 1..Len(ratios) |-> None]
                   /\ last_trade' = None
    /\ UNCHANGED <<params, ratios, call, step, prices, md, channel_vars, service_vars>>

NextPage ==
    PageRunBacktest \/ LoopBody \/ Return \/ SliceAndSeed \/ SimulateStep
        \/ LoopEnd \/ Metrics

SpecPage == InitPage /\ [][NextPage]_vars

\* the observed dates on or after the configured start date
FromStartDate == {k \in 1..Len(dates) : dates[k] >= params.start_date}

\* C22: the backtest page starts the run at the first observed date on or
\* after start_date: every date of a returned result is >= start_date, and
\* when no observed date is >= start_date, or fewer than 2 observed days
\* remain from the first such date, no backtest is run and None is returned.
C22_StartsAtStartDate ==
    /\ bt.pc = "returned" =>
          \A k \in 1..Len(bt.result.dates) : bt.result.dates[k] >= params.start_date
    /\ Cardinality(FromStartDate) < 2 => bt.pc \in {"page", "none"}

(***************************************************************************)
(* Calls of run_backtest for different configurations on one snapshot of   *)
(* dates, prices and positions: a call with params, a call with another    *)
(* configuration, and a call with the first configuration again.           *)
(***************************************************************************)
ConfigPrices == {Num(100), Num(200), NaN}
ConfigParams == [ladder : {"g1"}, sell_start : {Num(50), Hundred},
                 buy_threshold : {Num(25)}, reentry_mode : {"instant"},
                 start_weight : {Frac(1, 2), One}]

InitConfigs ==
    /\ params \in ConfigParams
    /\ \E n \in 2..MaxDays :
          /\ ratios \in [1..n -> BacktestPositions]
          /\ prices \in [1..n -> ConfigPrices]
          /\ start_idx \in {s \in 0..MaxStartIdx : s < n - 1}
    /\ pc = "loop"
    /\ i = start_idx
    /\ weight = params.start_weight
    /\ weights = [k \in 1..Len(ratios) |-> None]
    /\ last_trade = None
    /\ call = None
    /\ step = None
    /\ bt = Entered(None)
    /\ md = None
    /\ df = <<>>
    /\ ch = None
    /\ feed = None
    /\ api = None

\* the second call, for another configuration
CallOther ==
    /\ bt.pc = "returned"
    /\ bt.first = None
    /\ \E other \in ConfigParams \ {params} :
          /\ params' = other
          /\ weight' = other.start_weight
    /\ bt' = Entered([alone |-> bt.result, config |-> params, between |-> None])
    /\ pc' = "loop"
    /\ i' = start_idx
    /\ weights' = [k \in 1..Len(ratios) |-> None]
    /\ last_trade' = None
    /\ UNCHANGED <<ratios, start_idx, call, step, prices, md, channel_vars, service_vars>>

\* a third call that starts from the allocation the second call ended with
CallBack_KeepsWeight ==
    /\ bt.pc = "returned"
    /\ bt.first # None
    /\ bt.first.between = None
    /\ params' = bt.first.config
    /\ bt' = Entered([bt.first EXCEPT !.between = bt.result])
    /\ pc' = "loop"
    /\ i' = start_idx
    /\ weights' = [k \in 1..Len(ratios) |-> None]
    /\ last_trade' = None
    /\ UNCHANGED <<ratios, start_idx, weight, call, step, prices, md, channel_vars, service_vars>>

\* the third call, for the first configuration again
CallBack ==
    /\ bt.pc = "returned"
    /\ bt.first # None
    /\ bt.first.between = None
    /\ params' = bt.first.config
    /\ weight' = bt.first.config.start_weight
    /\ bt' = Entered([bt.first EXCEPT !.between = bt.result])
    /\ pc' = "loop"
    /\ i' = start_idx
    /\ weights' = [k \in 1..Len(ratios) |-> None]
    /\ last_trade' = None
    /\ UNCHANGED <<ratios, start_idx, call, step, prices, md, channel_vars, service_vars>>

NextConfigs ==
    LoopBody \/ Return \/ SliceAndSeed \/ SimulateStep \/ Halt \/ LoopEnd \/ Metrics
        \/ CallOther \/ CallBack

SpecConfigs == InitConfigs /\ [][NextConfigs]_vars

\* the third call has returned
CalledBack == bt.pc = "returned" /\ bt.first # None /\ bt.first.between # None

InitNoLookAhead ==
    /\ params \in BacktestParams
    /\ \E n \in 2..MaxDays :
          /\ ratios \in [1..n -> BacktestPositions]
          /\ prices \in [1..n -> ConfigPrices]
          /\ start_idx \in {s \in 0..MaxStartIdx : s < n - 1}
    /\ pc = "loop"
    /\ i = start_idx
    /\ weight = params.start_weight
    /\ weights = [k \in 1..Len(ratios) |-> None]
    /\ last_trade = None
    /\ call = None
    /\ step = None
    /\ bt = Entered(None)
    /\ md = None
    /\ df = <<>>
    /\ ch = None
    /\ feed = None
    /\ api = None

\* the list with every entry after the first `keep` replaced by v
Perturbed(seq, keep, v) ==
    [k \in 1..Len(seq) |-> IF k <= keep THEN seq[k] ELSE v]

\* the second call: same params and start_idx, later inputs changed
CallPerturbed ==
    /\ bt.pc = "returned"
    /\ bt.first = None
    /\ \E t \in start_idx..(Len(ratios) - 1), r \in BacktestPositions,
          q \in ConfigPrices :
          /\ ratios' = Perturbed(ratios, t + 1, r)
          /\ prices' = Perturbed(prices, t + 2, q)
          /\ bt' = Entered([result |-> bt.result, day |-> t - start_idx])
    /\ pc' = "loop"
    /\ i' = start_idx
    /\ weight' = params.start_weight
    /\ weights' = [k \in 1..Len(ratios) |-> None]
    /\ last_trade' = None
    /\ UNCHANGED <<params, start_idx, call, step, md, channel_vars, service_vars>>

NextNoLookAhead ==
    LoopBody \/ Return \/ SliceAndSeed \/ SimulateStep \/ Halt \/ LoopEnd \/ Metrics
        \/ CallPerturbed

SpecNoLookAhead == InitNoLookAhead /\ [][NextNoLookAhead]_vars

SecondRun == bt.first # None /\ bt.pc = "returned"
AgreedDay == bt.first.day
FirstRun == bt.first.result

\* C25: no look-ahead: two runs with the same params whose positions agree
\* up to day t and whose prices agree up to day t + 1 produce the same
\* allocations up to day t and the same entries of both equity curves up
\* to index t + 1.
C25_NoLookAhead ==
    SecondRun =>
        /\ \A t \in 0..AgreedDay :
              bt.result.weights[t + 1] = FirstRun.weights[t + 1]
        /\ \A k \in 0..(AgreedDay + 1) :
              k < Days =>
                /\ bt.result.strategy_equity[k + 1] = FirstRun.strategy_equity[k + 1]
                /\ bt.result.hodl_equity[k + 1] = FirstRun.hodl_equity[k + 1]

\* a second run that agrees with the first for a day and a traded step,
\* and differs from it afterwards in allocation and in equity
C25_Witness ==
    /\ SecondRun
    /\ AgreedDay + 1 < Days - 1
    /\ bt.result.strategy_equity[AgreedDay + 2] \notin {None, One}
    /\ bt.result.strategy_equity[AgreedDay + 2] = FirstRun.strategy_equity[AgreedDay + 2]
    /\ bt.result.weights[AgreedDay + 2] # FirstRun.weights[AgreedDay + 2]
    /\ bt.result.strategy_equity[Days] # FirstRun.strategy_equity[Days]

(***************************************************************************)
(* PriceFeed (src/core/price_feed.py): the stored price, the tick time and *)
(* the fallback of get_latest_price.  feed.now is time.time() in seconds;  *)
(* a handler runs at one instant.  feed.returned is the latest return of   *)
(* get_latest_price: the LivePrice, whether fetch_coinbase_price was       *)
(* called, and the time of the call.                                       *)
(***************************************************************************)
MaxClock == 10
fallback_interval == 8

\* time.time() at construction: later than fallback_interval after the
\* initial last_tick of 0
Epoch == fallback_interval + 1

\* the "p" field of a trade message; 0 stands for a missing field
MessagePrices == {0, 100}

LivePrice(price, source, timestamp) ==
    [price |-> price, source |-> source, timestamp |-> timestamp]

\* no calculation of the core is under way
CoreIdle ==
    /\ params = None
    /\ ratios = <<>>
    /\ start_idx = 0
    /\ pc = "done"
    /\ i = 0
    /\ weight = None
    /\ weights = <<>>
    /\ last_trade = None
    /\ call = None
    /\ step = None
    /\ prices = <<>>
    /\ bt = None
    /\ md = None
    /\ df = <<>>
    /\ ch = None

InitPriceFeed ==
    /\ feed = [now |-> Epoch, last_price |-> None, last_tick |-> 0, returned |-> None]
    /\ api = None
    /\ CoreIdle

core_vars == <<params, ratios, start_idx, pc, i, weight, weights, last_trade, call,
               step, backtest_vars, md, channel_vars>>

\* a second passes
Tick ==
    /\ feed.now < Epoch + MaxClock
    /\ feed' = [feed EXCEPT !.now = feed.now + 1]
    /\ UNCHANGED <<core_vars, api>>

\* _on_open: the socket (re)connected
OnOpen ==
    /\ feed' = [feed EXCEPT !.last_tick = feed.now]
    /\ UNCHANGED <<core_vars, api>>

\* _on_message: a trade message; a price that is not positive is ignored
OnMessage ==
    /\ \E price \in MessagePrices :
          feed' = IF price > 0
                  THEN [feed EXCEPT !.last_tick = feed.now,
                                    !.last_price = LivePrice(price, "Binance", feed.now)]
                  ELSE feed
    /\ UNCHANGED <<core_vars, api>>

\* the test that lets get_latest_price skip the fallback
IsFresh ==
    /\ feed.last_price # None
    /\ feed.now - feed.last_tick < fallback_interval

\* get_latest_price, with both outcomes of fetch_coinbase_price
GetLatestPrice ==
    /\ IF IsFresh
       THEN feed' = [feed EXCEPT !.returned =
                        [price |-> feed.last_price, fetched |-> FALSE, at |-> feed.now]]
       ELSE \E fetched_ok \in BOOLEAN :
              LET fallback_price == IF fetched_ok
                                    THEN LivePrice(100, "Coinbase", feed.now)
                                    ELSE None
              IN  IF fallback_price # None
                  THEN feed' = [feed EXCEPT
                                  !.last_price = fallback_price,
                                  !.returned = [price |-> fallback_price,
                                                fetched |-> TRUE, at |-> feed.now]]
                  ELSE feed' = [feed EXCEPT
                                  !.returned = [price |-> feed.last_price,
                                                fetched |-> TRUE, at |-> feed.now]]
    /\ UNCHANGED <<core_vars, api>>

NextPriceFeed == Tick \/ OnOpen \/ OnMessage \/ GetLatestPrice

SpecPriceFeed == InitPriceFeed /\ [][NextPriceFeed]_vars

ReturnedWithoutFallback == feed.returned # None /\ ~feed.returned.fetched

\* C27: whenever get_latest_price returns without calling
\* fetch_coinbase_price, the returned LivePrice came from the Binance
\* WebSocket and its timestamp is less than fallback_interval seconds before
\* the call, for every order of message, open and fallback events.
C27_FreshWithoutFallback ==
    ReturnedWithoutFallback =>
        /\ feed.returned.price.source = "Binance"
        /\ feed.returned.at - feed.returned.price.timestamp < fallback_interval

(***************************************************************************)
(* get_price_feed (src/core/price_feed.py): the module global              *)
(* _price_feed_instance and the page runs that call get_price_feed, each   *)
(* in a thread of its own.  A thread can be preempted between any two      *)
(* statements.  feed.objects lists the PriceFeed objects created so far,   *)
(* an object being named by its index; `threads` counts the ws_thread      *)
(* objects start() has launched for it.  The websocket library is present. *)
(***************************************************************************)
MaxCallers == 2
MaxCalls == 2

Callers == 1..MaxCallers

\* `_price_feed_instance = None`: objects are numbered from 1
NoInstance == 0

InitSingleton ==
    /\ feed = [instance |-> NoInstance,
               objects |-> <<>>,
               callers |-> [t \in Callers |->
                              [pc |-> "idle", calls |-> 0, target |-> NoInstance,
                               returned |-> <<>>]]]
    /\ api = None
    /\ CoreIdle

\* a page run calls get_price_feed()
Call(t) ==
    /\ feed.callers[t].pc = "idle"
    /\ feed.callers[t].calls < MaxCalls
    /\ feed' = [feed EXCEPT !.callers[t].pc = "test",
                            !.callers[t].calls = feed.callers[t].calls + 1]
    /\ UNCHANGED <<core_vars, api>>

\* `if _price_feed_instance is None:`
TestNone(t) ==
    /\ feed.callers[t].pc = "test"
    /\ feed' = [feed EXCEPT !.callers[t].pc =
                    IF feed.instance = NoInstance THEN "create" ELSE "return"]
    /\ UNCHANGED <<core_vars, api>>

\* `_price_feed_instance = PriceFeed()`
CreateAndAssign(t) ==
    /\ feed.callers[t].pc = "create"
    /\ feed' = [feed EXCEPT
                  !.objects = Append(feed.objects, [running |-> FALSE, threads |-> 0]),
                  !.instance = Len(feed.objects) + 1,
                  !.callers[t].pc = "start"]
    /\ UNCHANGED <<core_vars, api>>

\* `_price_feed_instance.start()` up to `if ... self.running: return`
StartTest(t) ==
    /\ feed.callers[t].pc = "start"
    /\ feed' = [feed EXCEPT
                  !.callers[t].target = feed.instance,
                  !.callers[t].pc = IF feed.objects[feed.instance].running
                                    THEN "return" ELSE "launch"]
    /\ UNCHANGED <<core_vars, api>>

\* the rest of start(): `self.running = True` and the new ws_thread
StartLaunch(t) ==
    /\ feed.callers[t].pc = "launch"
    /\ LET o == feed.callers[t].target
       IN  feed' = [feed EXCEPT
                      !.objects[o] = [running |-> TRUE,
                                      threads |-> feed.objects[o].threads + 1],
                      !.callers[t].pc = "return"]
    /\ UNCHANGED <<core_vars, api>>

\* `return _price_feed_instance`
ReturnInstance(t) ==
    /\ feed.callers[t].pc = "return"
    /\ feed' = [feed EXCEPT
                  !.callers[t].returned = Append(feed.callers[t].returned, feed.instance),
                  !.callers[t].pc = "idle"]
    /\ UNCHANGED <<core_vars, api>>

NextSingleton ==
    \/ \E t \in Callers : Call(t)
    \/ \E t \in Callers : TestNone(t)
    \/ \E t \in Callers : CreateAndAssign(t)
    \/ \E t \in Callers : StartTest(t)
    \/ \E t \in Callers : StartLaunch(t)
    \/ \E t \in Callers : ReturnInstance(t)

SpecSingleton == InitSingleton /\ [][NextSingleton]_vars

\* C28: over any interleaving of get_price_feed calls from concurrent page
\* runs every call returns the same PriceFeed instance, and exactly one
\* instance is ever created and started.
C28_Singleton ==
    /\ Len(feed.objects) <= 1
    /\ \A o \in 1..Len(feed.objects) : feed.objects[o].threads <= 1
    /\ \A t \in Callers, u \in Callers :
          \A k \in 1..Len(feed.callers[t].returned),
             l \in 1..Len(feed.callers[u].returned) :
              feed.callers[t].returned[k] = feed.callers[u].returned[l]
    /\ \A t \in Callers :
          Len(feed.callers[t].returned) > 0 =>
              /\ Len(feed.objects) = 1
              /\ feed.objects[1].threads = 1

(***************************************************************************)
(* The connection loops of one PriceFeed (src/core/price_feed.py).         *)
(* start() and stop() are called from one thread; every ws_thread runs     *)
(* _connect_ws, and the close callback runs in the thread whose            *)
(* run_forever ended.  feed.threads lists the ws_thread objects: a thread  *)
(* is "spawned" before _connect_ws, "running" inside run_forever with an   *)
(* open connection, "closing" once its connection is closed, "sleeping"    *)
(* inside the close callback's time.sleep(1.5), and "ended" afterwards.    *)
(* WebSocketApp objects are numbered from 1; feed.ws = NoSocket is         *)
(* `self.ws = None`.                                                       *)
(***************************************************************************)
MaxStarts == 2
MaxSockets == 3

NoSocket == 0

InitReconnect ==
    /\ feed = [running |-> FALSE, ws |-> NoSocket, sockets |-> 0, threads |-> <<>>]
    /\ api = None
    /\ CoreIdle

ThreadIds == 1..MaxStarts
WsThreads == 1..Len(feed.threads)

\* start()
Start ==
    /\ Len(feed.threads) < MaxStarts
    /\ feed' = IF feed.running
               THEN feed
               ELSE [feed EXCEPT
                       !.running = TRUE,
                       !.threads = Append(feed.threads,
                                          [state |-> "spawned", ws |-> NoSocket])]
    /\ UNCHANGED <<core_vars, api>>

\* ws.close(): the connection of that WebSocketApp, if open, is closed
Closed(threads, ws) ==
    [th \in 1..Len(threads) |->
        IF threads[th].ws = ws /\ threads[th].state = "running"
        THEN [threads[th] EXCEPT !.state = "closing"]
        ELSE threads[th]]

\* stop()
Stop ==
    /\ feed' = [feed EXCEPT
                  !.running = FALSE,
                  !.threads = IF feed.ws # NoSocket
                              THEN Closed(feed.threads, feed.ws)
                              ELSE feed.threads]
    /\ UNCHANGED <<core_vars, api>>

\* _connect_ws: a new WebSocketApp in self.ws, then run_forever
connect_ws(th) ==
    [feed EXCEPT !.sockets = feed.sockets + 1,
                 !.ws = feed.sockets + 1,
                 !.threads[th] = [state |-> "running", ws |-> feed.sockets + 1]]

\* the target of a ws_thread
ThreadRun(th) ==
    /\ th \in WsThreads
    /\ feed.threads[th].state = "spawned"
    /\ feed.sockets < MaxSockets
    /\ feed' = connect_ws(th)
    /\ UNCHANGED <<core_vars, api>>

\* the server or the network closes the connection
Drop(th) ==
    /\ th \in WsThreads
    /\ feed.threads[th].state = "running"
    /\ feed' = [feed EXCEPT !.threads[th].state = "closing"]
    /\ UNCHANGED <<core_vars, api>>

\* _on_close up to the sleep: `if self.running: time.sleep(1.5)`
OnClose(th) ==
    /\ th \in WsThreads
    /\ feed.threads[th].state = "closing"
    /\ feed' = [feed EXCEPT !.threads[th].state =
                    IF feed.running THEN "sleeping" ELSE "ended"]
    /\ UNCHANGED <<core_vars, api>>

\* _on_close after the sleep: `if self.running: self._connect_ws()`
Reconnect(th) ==
    /\ th \in WsThreads
    /\ feed.threads[th].state = "sleeping"
    /\ feed.running => feed.sockets < MaxSockets
    /\ feed' = IF feed.running
               THEN connect_ws(th)
               ELSE [feed EXCEPT !.threads[th].state = "ended"]
    /\ UNCHANGED <<core_vars, api>>

NextReconnect ==
    \/ Start
    \/ Stop
    \/ \E th \in ThreadIds : ThreadRun(th)
    \/ \E th \in ThreadIds : Drop(th)
    \/ \E th \in ThreadIds : OnClose(th)
    \/ \E th \in ThreadIds : Reconnect(th)

SpecReconnect == InitReconnect /\ [][NextReconnect]_vars

ConnectionLoops == {th \in WsThreads : feed.threads[th].state = "running"}

\* C29: under any interleaving of start(), stop() and the close callback's
\* delayed reconnect at most one WebSocket connection loop of a PriceFeed
\* is running at any time.
C29_OneConnectionLoop == Cardinality(ConnectionLoops) <= 1

(***************************************************************************)
(* POST /api/update (src/api_server.py).  api.TOKEN is the module constant *)
(* read from BTC_UPDATE_TOKEN when the server starts; api.log lists the    *)
(* requests served so far: the X-Update-Token header, whether              *)
(* subprocess.run was called, and the response.                            *)
(***************************************************************************)
MaxRequests == 3

\* BTC_UPDATE_TOKEN; "" when the variable is not set
Tokens == {"", "s3cret", "other"}

\* request.headers.get("X-Update-Token", ""): "" also when the header is absent
HeaderValues == {"", "s3cret", "other", "S3CRET"}

\* subprocess.run: the script's return code, or TimeoutExpired
ScriptOutcomes == {"returncode 0", "returncode 1", "timeout"}

Unauthorized == [ran |-> FALSE, status |-> 401, ok |-> FALSE, error |-> "unauthorized"]

RunScript(outcome) ==
    CASE outcome = "returncode 0" ->
            [ran |-> TRUE, status |-> 200, ok |-> TRUE, error |-> ""]
      [] outcome = "returncode 1" ->
            [ran |-> TRUE, status |-> 500, ok |-> FALSE, error |-> ""]
      [] outcome = "timeout" ->
            [ran |-> TRUE, status |-> 504, ok |-> FALSE, error |-> "timeout"]

\* the handler without the `not TOKEN` test
update_HeaderOnly(got, outcome) ==
    IF got # api.TOKEN THEN Unauthorized ELSE RunScript(outcome)

\* update(): the response to a request
update(got, outcome) ==
    IF api.TOKEN = "" \/ got # api.TOKEN THEN Unauthorized ELSE RunScript(outcome)

InitApi ==
    /\ api \in [TOKEN : Tokens, log : {<<>>}]
    /\ feed = None
    /\ CoreIdle

\* one request to POST /api/update
PostUpdate ==
    /\ Len(api.log) < MaxRequests
    /\ \E got \in HeaderValues, outcome \in ScriptOutcomes :
          api' = [api EXCEPT !.log =
                    Append(api.log, [got |-> got, response |-> update(got, outcome)])]
    /\ UNCHANGED <<core_vars, feed>>

NextApi == PostUpdate

SpecApi == InitApi /\ [][NextApi]_vars

Authorized(request) == api.TOKEN # "" /\ request.got = api.TOKEN

\* C30: POST /api/update runs the update script only when the configured
\* token is non-empty and the X-Update-Token header equals it; every other
\* request, including every request when the configured token is empty,
\* gets 401 unauthorized and the script is not run.
C30_TokenGuardsUpdate ==
    \A k \in 1..Len(api.log) :
        LET request == api.log[k]
        IN  /\ request.response.ran <=> Authorized(request)
            /\ ~Authorized(request) =>
                  /\ request.response.status = 401
                  /\ request.response.error = "unauthorized"

\* with no token configured, a request without the header and a request
\* with a token have both been refused
C30_Witness ==
    /\ api.TOKEN = ""
    /\ Len(api.log) >= 2
    /\ api.log[1].got = ""
    /\ api.log[2].got = "s3cret"
    /\ \A k \in 1..2 : api.log[k].response = Unauthorized

====
